---- MODULE Spec2Model ----
(***************************************************************************)
(* Model of the authentication service of MernAuthServer                   *)
(* (src/src/service/auth.service.ts): account creation, login, refresh of  *)
(* the access token, email verification, password-reset request and        *)
(* password-reset completion, over the user, session and verification-code *)
(* stores and the outbound mailer.                                         *)
(*                                                                         *)
(* Time is counted in seconds; every duration the service uses is a whole  *)
(* number of seconds.  Under Spec each handler runs to completion in one   *)
(* step (the sequential view of the service): a handler is a function from *)
(* the stores, the clock and its arguments to its response and the stores  *)
(* it leaves, and the action of the handler applies that function.  Under  *)
(* SpecC two clients call the handlers at once and a handler takes one     *)
(* step for each store or mailer call it awaits.                           *)
(***************************************************************************)
EXTENDS Integers, FiniteSets, Sequences, TLC

VARIABLES
    users,          \* UserModel collection: records id, email, password (hash), verified
    sessions,       \* SessionModel collection: records id, userId, userAgent, expiresAt
    codes,          \* VerificationCodeModel collection: records id, userId, type, createdAt, expiresAt
    nextSessionId,  \* next _id the session store assigns
    nextCodeId,     \* next _id the verification-code store assigns
    mails,          \* every sendMail call made so far: to, url
    now,            \* the clock (Date.now(), new Date())
    ticks,          \* how many times the clock has advanced
    last,           \* the response of the handler call the latest step completed
    calls           \* the handler call each client has in flight, with its local variables

vars == <<users, sessions, codes, nextSessionId, nextCodeId, mails, now, ticks, last, calls>>

stores == <<users, sessions, codes, nextSessionId, nextCodeId, mails>>

----------------------------------------------------------------------------
(* Bounds of the model *)

MaxSessions == 2
MaxCodes == 4
MaxTicks == 1
MaxCalls == 1

\* The addresses requests name, and those among them that get registered.
Emails == {"a@x.com", "b@x.com"}
AccountEmails == {"a@x.com"}
Passwords == {"pw1", "pw2"}
UserAgents == {"ua"}

\* The clients that call the service at the same time.
Procs == {1, 2}

----------------------------------------------------------------------------
(* Durations (utils/date), in seconds *)

ONE_DAY_MS == 24 * 60 * 60

FiveMinutes == 5 * 60

OneHour == 60 * 60

ThirtyDays == 30 * ONE_DAY_MS

OneYear == 365 * ONE_DAY_MS

fiveMinutesAgo(t) == t - FiveMinutes

oneHourFromNow(t) == t + OneHour

thirtyDaysFromNow(t) == t + ThirtyDays

oneYearFromNow(t) == t + OneYear

----------------------------------------------------------------------------
(* Constants of the service *)

OK == "OK"
CONFLICT == "CONFLICT"
UNAUTHORIZED == "UNAUTHORIZED"
NOT_FOUND == "NOT_FOUND"
TOO_MANY_REQUESTS == "TOO_MANY_REQUESTS"
INTERNAL_SERVER_ERROR == "INTERNAL_SERVER_ERROR"

EmailVerification == "email_verification"
PasswordReset == "password_reset"

APP_ORIGIN == "APP_ORIGIN"

\* The value of an absent optional field.
Undefined == [undefined |-> TRUE]

----------------------------------------------------------------------------
(* Password hashing (utils/bcrypt, user model) *)

hashValue(password) == [bcrypt |-> password]

comparePassword(user, password) == user.password = hashValue(password)

omitPassword(user) == [id |-> user.id, email |-> user.email, verified |-> user.verified]

----------------------------------------------------------------------------
(* Token signing (utils/jwt).  A token is its payload together with the    *)
(* secret it was signed with.                                              *)

AccessSecret == "JWT_SECRET"
RefreshSecret == "JWT_REFRESH_SECRET"

refreshTokenSignOptions == [secret |-> RefreshSecret]

defaultSignOptions == [secret |-> AccessSecret]

signToken(payload, options) == [payload |-> payload, secret |-> options.secret]

\* verifyToken returns the payload, or no payload when the signature does
\* not verify under the secret.
verifyToken(token, secret) ==
    IF token.secret = secret THEN token.payload ELSE Undefined

----------------------------------------------------------------------------
(* Outcomes of a handler *)

\* The stores as one value.
Db ==
    [users |-> users, sessions |-> sessions, codes |-> codes,
     nextSessionId |-> nextSessionId, nextCodeId |-> nextCodeId, mails |-> mails]

\* appAssert(false, kind, message): the handler throws AppError(kind, message).
\* The response carries no request; log is what the handler wrote to the console.
Failure(op, kind, message, db) ==
    [response |-> [op |-> op, kind |-> kind, message |-> message, body |-> Undefined,
                   args |-> Undefined, log |-> Undefined],
     db |-> db]

\* The handler returns body; the request of a call that succeeded is kept with it.
Success(op, args, body, log, db) ==
    [response |-> [op |-> op, kind |-> OK, message |-> "", body |-> body, args |-> args,
                   log |-> log],
     db |-> db]

Idle ==
    [op |-> "none", kind |-> OK, message |-> "", body |-> Undefined, args |-> Undefined,
     log |-> Undefined]

\* The step a handler's result stands for.
Apply(result) ==
    /\ result.db.nextSessionId <= MaxSessions + 1
    /\ result.db.nextCodeId <= MaxCodes + 1
    /\ last' = result.response
    /\ users' = result.db.users
    /\ sessions' = result.db.sessions
    /\ codes' = result.db.codes
    /\ nextSessionId' = result.db.nextSessionId
    /\ nextCodeId' = result.db.nextCodeId
    /\ mails' = result.db.mails
    /\ UNCHANGED <<now, ticks, calls>>

----------------------------------------------------------------------------
(* Store queries *)

\* UserModel.findOne({email})
UserByEmail(db, email) == {u \in db.users : u.email = email}

\* exists with a filter that also asks for a verified user.
exists_verifiedOnly(db, email) == \E u \in UserByEmail(db, email) : u.verified

\* UserModel.exists({email})
exists(db, email) == UserByEmail(db, email) # {}

UserById(db, id) == {u \in db.users : u.id = id}

\* SessionModel.create({userId, userAgent}): expiresAt defaults to thirty days from now.
NewSession(db, t, userId, userAgent) ==
    [id |-> db.nextSessionId, userId |-> userId, userAgent |-> userAgent,
     expiresAt |-> thirtyDaysFromNow(t)]

\* VerificationCodeModel.create({userId, type, expiresAt})
NewCode(db, t, userId, type, expiresAt) ==
    [id |-> db.nextCodeId, userId |-> userId, type |-> type,
     createdAt |-> t, expiresAt |-> expiresAt]

\* findOne with no filter on the type of the code.
FindValidCode_anyType(db, code, type, t) ==
    {c \in db.codes : c.id = code /\ c.expiresAt > t}

\* VerificationCodeModel.findOne({_id, type, expiresAt: {$gt: new Date()}})
FindValidCode(db, code, type, t) ==
    {c \in db.codes : c.id = code /\ c.type = type /\ c.expiresAt > t}

\* VerificationCodeModel.countDocuments({userId, type, createdAt: {$gt: since}})
countDocuments(db, userId, type, since) ==
    Cardinality({c \in db.codes : c.userId = userId /\ c.type = type /\ c.createdAt > since})

\* deleteOne that is never awaited to completion: the document stays.
deleteOne_keeps(collection, doc) == collection

\* validCode.deleteOne()
deleteOne(collection, doc) == collection \ {doc}

\* deleteMany filtering on _id instead of userId.
deleteMany_byId(collection, userId) == {s \in collection : s.id # userId}

\* SessionModel.deleteMany({userId})
deleteMany(collection, userId) == {s \in collection : s.userId # userId}

\* sendMail outcomes: the mailer returns a delivery id or an error.
MailOutcomes == {"delivered", "failed"}

sendMail(outcome) ==
    IF outcome = "delivered"
    THEN [data |-> [id |-> "mail-id"], error |-> Undefined]
    ELSE [data |-> Undefined, error |-> [name |-> "MailError", message |-> "not sent"]]

\* A client with no call in flight.  op and args are the handler called and
\* its arguments, pc the await the call stands at, user, code and session the
\* handler's local variables, response what the call returned or threw, n the
\* number of calls the client has made.
NoCall ==
    [op |-> "none", pc |-> "idle", args |-> Undefined, user |-> Undefined,
     code |-> Undefined, session |-> Undefined, response |-> Undefined, n |-> 0]

----------------------------------------------------------------------------
Init ==
    /\ calls = [p \in Procs |-> NoCall]
    /\ users = {}
    /\ sessions = {}
    /\ codes = {}
    /\ nextSessionId = 1
    /\ nextCodeId = 1
    /\ mails = {}
    /\ now = 0
    /\ ticks = 0
    /\ last = Idle

----------------------------------------------------------------------------
(* createAccount *)

\* An appAssert on the mailer's error where the handler only logs it.
MailErrorFails_asserted(error) == error # Undefined

\* if (error) console.error(error): the error is logged, the handler goes on.
MailErrorFails(error) == FALSE

createAccountResult(db, t, data, mail) ==
    LET existingUser == exists(db, data.email)
    IN  IF existingUser
        THEN Failure("createAccount", CONFLICT, "Email already in use", db)
        ELSE LET user == [id |-> Cardinality(db.users) + 1, email |-> data.email,
                          password |-> hashValue(data.password), verified |-> FALSE]
                 userId == user.id
                 verificationCode ==
                     NewCode(db, t, userId, EmailVerification, oneYearFromNow(t))
                 url == [origin |-> APP_ORIGIN, path |-> "/email/verify/",
                         code |-> verificationCode.id]
                 error == sendMail(mail).error
                 session == NewSession(db, t, userId, data.userAgent)
                 refreshToken == signToken([sessionId |-> session.id], refreshTokenSignOptions)
                 accessToken == signToken([userId |-> userId, sessionId |-> session.id],
                                          defaultSignOptions)
                 mailed == [db EXCEPT !.users = @ \cup {user},
                                      !.codes = @ \cup {verificationCode},
                                      !.nextCodeId = @ + 1,
                                      !.mails = @ \cup {[to |-> user.email, url |-> url]}]
             IN  IF MailErrorFails(error)
                 THEN Failure("createAccount", INTERNAL_SERVER_ERROR, error.message, mailed)
                 ELSE Success("createAccount", data,
                              [user |-> omitPassword(user),
                               accessToken |-> accessToken,
                               refreshToken |-> refreshToken],
                              error,
                              [mailed EXCEPT !.sessions = @ \cup {session},
                                             !.nextSessionId = @ + 1])

createAccount(data, mail) == Apply(createAccountResult(Db, now, data, mail))

----------------------------------------------------------------------------
(* loginUser *)

loginUserResult(db, t, email, password, userAgent) ==
    LET args == [email |-> email, password |-> password, userAgent |-> userAgent]
        found == UserByEmail(db, email)
    IN  IF found = {}
        THEN Failure("loginUser", UNAUTHORIZED, "Invalid email or password", db)
        ELSE LET user == CHOOSE u \in found : TRUE
                 isValid == comparePassword(user, password)
                 \* the second appAssert tests user, which is set, not isValid
                 asserted == found # {}
             IN  IF ~asserted
                 THEN Failure("loginUser", UNAUTHORIZED, "Invalid email or password", db)
                 ELSE LET userId == user.id
                          session == NewSession(db, t, userId, userAgent)
                          sessionInfo == [sessionId |-> session.id]
                          refreshToken == signToken(sessionInfo, refreshTokenSignOptions)
                          accessToken == signToken([sessionId |-> session.id,
                                                    userId |-> user.id],
                                                   defaultSignOptions)
                      IN  Success("loginUser", args,
                                  [user |-> omitPassword(user),
                                   accessToken |-> accessToken,
                                   refreshToken |-> refreshToken],
                                  Undefined,
                                  [db EXCEPT !.sessions = @ \cup {session},
                                             !.nextSessionId = @ + 1])

loginUser(email, password, userAgent) ==
    Apply(loginUserResult(Db, now, email, password, userAgent))

----------------------------------------------------------------------------
(* refreshUserAccessToken *)

\* The tokens a client can present as a refresh token: the refresh token of
\* every session the service has created, and an access token.
RefreshTokens ==
    {signToken([sessionId |-> s], refreshTokenSignOptions) : s \in 1..(nextSessionId - 1)}
        \cup {signToken([userId |-> 1, sessionId |-> 1], defaultSignOptions)}

\* The liveness test with >= for >.
SessionLive_inclusive(session, t) == session.expiresAt >= t

SessionLive(session, t) == session.expiresAt > t

\* The renewal test with < for <=.
SessionNeedsRefresh_strict(session, t) == session.expiresAt - t < ONE_DAY_MS

\* The renewal test with the operands of the subtraction swapped.
SessionNeedsRefresh_swapped(session, t) == t - session.expiresAt <= ONE_DAY_MS

\* A renewal on every refresh.
SessionNeedsRefresh_always(session, t) == TRUE

SessionNeedsRefresh(session, t) == session.expiresAt - t <= ONE_DAY_MS

refreshUserAccessTokenResult(db, t, refreshToken) ==
    LET args == [refreshToken |-> refreshToken]
        payload == verifyToken(refreshToken, refreshTokenSignOptions.secret)
    IN  IF payload = Undefined
        THEN Failure("refreshUserAccessToken", UNAUTHORIZED, "Invalid refresh token", db)
        ELSE LET found == {s \in db.sessions : s.id = payload.sessionId}
             IN  IF ~(found # {} /\ SessionLive(CHOOSE s \in found : TRUE, t))
                 THEN Failure("refreshUserAccessToken", UNAUTHORIZED, "Session expired", db)
                 ELSE LET session == CHOOSE s \in found : TRUE
                          sessionNeedsRefresh == SessionNeedsRefresh(session, t)
                          saved == [session EXCEPT !.expiresAt = thirtyDaysFromNow(t)]
                          newRefreshToken ==
                              IF sessionNeedsRefresh
                              THEN signToken([sessionId |-> session.id],
                                             refreshTokenSignOptions)
                              ELSE Undefined
                          accessToken == signToken([userId |-> session.userId,
                                                    sessionId |-> session.id],
                                                   defaultSignOptions)
                      IN  Success("refreshUserAccessToken", args,
                                  [accessToken |-> accessToken,
                                   newRefreshToken |-> newRefreshToken],
                                  Undefined,
                                  IF sessionNeedsRefresh
                                  THEN [db EXCEPT !.sessions = (@ \ {session}) \cup {saved}]
                                  ELSE db)

refreshUserAccessToken(refreshToken) ==
    Apply(refreshUserAccessTokenResult(Db, now, refreshToken))

----------------------------------------------------------------------------
(* verifyEmail *)

\* The code ids a client can present: every id issued so far.
CodeIds == 1..(nextCodeId - 1)

verifyEmailResult(db, t, code) ==
    LET args == [code |-> code]
        found == FindValidCode(db, code, EmailVerification, t)
    IN  IF found = {}
        THEN Failure("verifyEmail", NOT_FOUND, "Invalid or expired verification code", db)
        ELSE LET validCode == CHOOSE c \in found : TRUE
                 target == UserById(db, validCode.userId)
             IN  IF target = {}
                 THEN Failure("verifyEmail", INTERNAL_SERVER_ERROR,
                              "Failed to verify email", db)
                 ELSE LET user == CHOOSE u \in target : TRUE
                          updatedUser == [user EXCEPT !.verified = TRUE]
                      IN  Success("verifyEmail", args,
                                  [user |-> omitPassword(updatedUser)],
                                  Undefined,
                                  [db EXCEPT !.users = (@ \ {user}) \cup {updatedUser},
                                             !.codes = deleteOne(@, validCode)])

verifyEmail(code) == Apply(verifyEmailResult(Db, now, code))

----------------------------------------------------------------------------
(* sendPasswordResetEmail *)

\* The step of the try block at which a collaborator throws, if any.
Faults == {"none", "findOne", "sendMail"}

\* The object the catch block returns.
EmptyObject == [empty |-> TRUE]

\* A throttle that admits a third code in the window.
ThrottleAdmits_third(count) == count <= 2

\* appAssert(count <= 1, TOO_MANY_REQUESTS, ...)
ThrottleAdmits(count) == count <= 1

\* A catch block that throws the error on.
Caught_rethrows(args, kind, message, db) ==
    Failure("sendPasswordResetEmail", kind, message, db)

\* catch (error): the error is logged and the empty object returned.
Caught(args, kind, message, db) ==
    Success("sendPasswordResetEmail", args, EmptyObject,
            [kind |-> kind, message |-> message], db)

sendPasswordResetEmailResult(db, t, email, mail, fault) ==
    LET args == [email |-> email]
        found == UserByEmail(db, email)
    IN  IF fault = "findOne"
        THEN Caught(args, "Error", "findOne", db)
        ELSE IF found = {}
        THEN Caught(args, NOT_FOUND, "User not found", db)
        ELSE LET user == CHOOSE u \in found : TRUE
                 fiveMinAgo == fiveMinutesAgo(t)
                 count == countDocuments(db, user.id, PasswordReset, fiveMinAgo)
             IN  IF ~ThrottleAdmits(count)
                 THEN Caught(args, TOO_MANY_REQUESTS,
                             "Too many requests, please try again later", db)
                 ELSE LET expiresAt == oneHourFromNow(t)
                          verificationCode ==
                              NewCode(db, t, user.id, PasswordReset, expiresAt)
                          url == [origin |-> APP_ORIGIN, path |-> "/password/reset",
                                  code |-> verificationCode.id, exp |-> expiresAt]
                          sent == sendMail(mail)
                          after == [db EXCEPT !.codes = @ \cup {verificationCode},
                                              !.nextCodeId = @ + 1,
                                              !.mails = @ \cup {[to |-> email, url |-> url]}]
                      IN  IF fault = "sendMail"
                          THEN Caught(args, "Error", "sendMail", after)
                          ELSE IF sent.data = Undefined
                          THEN Caught(args, INTERNAL_SERVER_ERROR, sent.error.message, after)
                          ELSE Success("sendPasswordResetEmail", args,
                                       [url |-> url, emailId |-> sent.data.id],
                                       Undefined, after)

sendPasswordResetEmail(email, mail, fault) ==
    Apply(sendPasswordResetEmailResult(Db, now, email, mail, fault))

----------------------------------------------------------------------------
(* resetPassword *)

resetPasswordResult(db, t, verificationCode, password) ==
    LET args == [verificationCode |-> verificationCode, password |-> password]
        found == FindValidCode(db, verificationCode, PasswordReset, t)
    IN  IF found = {}
        THEN Failure("resetPassword", NOT_FOUND, "Invalid or expired verification code", db)
        ELSE LET validCode == CHOOSE c \in found : TRUE
                 target == UserById(db, validCode.userId)
             IN  IF target = {}
                 THEN Failure("resetPassword", INTERNAL_SERVER_ERROR,
                              "Failed to reset password", db)
                 ELSE LET updatedUser == CHOOSE u \in target : TRUE
                          stored == [updatedUser EXCEPT !.password = hashValue(password)]
                      IN  Success("resetPassword", args,
                                  [user |-> omitPassword(updatedUser)],
                                  Undefined,
                                  [db EXCEPT !.users = (@ \ {updatedUser}) \cup {stored},
                                             !.codes = deleteOne(@, validCode),
                                             !.sessions = deleteMany(@, validCode.userId)])

resetPassword(verificationCode, password) ==
    Apply(resetPasswordResult(Db, now, verificationCode, password))

----------------------------------------------------------------------------
(* Passage of time between two requests *)

\* The instants at which a stored record changes what a handler does with
\* it: a session reaches the renewal threshold or expires, a code expires,
\* a password-reset code leaves the five-minute throttle window.
Deadlines ==
    {s.expiresAt - ONE_DAY_MS : s \in sessions}
        \cup {s.expiresAt : s \in sessions}
        \cup {c.expiresAt : c \in codes}
        \cup {c.createdAt + FiveMinutes : c \in {d \in codes : d.type = PasswordReset}}

\* The clock advances to one of the coming deadlines.
Tick ==
    /\ ticks < MaxTicks
    /\ \E t \in Deadlines : t > now /\ now' = t
    /\ ticks' = ticks + 1
    /\ last' = Idle
    /\ UNCHANGED <<stores, calls>>

----------------------------------------------------------------------------
Next ==
    \/ \E e \in AccountEmails, p \in Passwords, ua \in UserAgents, m \in MailOutcomes :
          createAccount([email |-> e, password |-> p, userAgent |-> ua], m)
    \/ \E e \in Emails, p \in Passwords, ua \in UserAgents : loginUser(e, p, ua)
    \/ \E t \in RefreshTokens : refreshUserAccessToken(t)
    \/ \E c \in CodeIds : verifyEmail(c)
    \/ \E e \in Emails, m \in MailOutcomes, f \in Faults : sendPasswordResetEmail(e, m, f)
    \/ \E c \in CodeIds, p \in Passwords : resetPassword(c, p)
    \/ Tick

Spec == Init /\ [][Next]_vars

----------------------------------------------------------------------------
(* Concurrent calls.  A handler is an async function: it runs without      *)
(* interruption up to each await of a store or mailer call, and another    *)
(* call may run between that call and the statements after it.  One action *)
(* below is one awaited call together with the statements that follow it   *)
(* up to the next await.  The clock stands still while the calls run.      *)

\* The stores before any request.
EmptyDb ==
    [users |-> {}, sessions |-> {}, codes |-> {}, nextSessionId |-> 1,
     nextCodeId |-> 1, mails |-> {}]

\* The stores after createAccount for email.
Registered(db, email) ==
    createAccountResult(db, 0, [email |-> email, password |-> "pw1", userAgent |-> "ua"],
                        "delivered").db

\* The stores after sendPasswordResetEmail for email.
Requested(db, email) == sendPasswordResetEmailResult(db, 0, email, "delivered", "none").db

\* Both addresses registered, one password reset requested for each.
BothRequested ==
    Requested(Requested(Registered(Registered(EmptyDb, "a@x.com"), "b@x.com"),
                        "a@x.com"), "b@x.com")

\* The stores the concurrent calls start from: states sequential calls lead to.
Prepared == {EmptyDb, BothRequested, Requested(BothRequested, "a@x.com")}

InitC ==
    /\ calls = [p \in Procs |-> NoCall]
    /\ \E db \in Prepared :
          /\ users = db.users
          /\ sessions = db.sessions
          /\ codes = db.codes
          /\ nextSessionId = db.nextSessionId
          /\ nextCodeId = db.nextCodeId
          /\ mails = db.mails
    /\ now = 0
    /\ ticks = 0
    /\ last = Idle

\* Client p may send a request.
Ready(p) == calls[p].pc \in {"idle", "done"} /\ calls[p].n < MaxCalls

\* The call client p starts.
NewCall(p, op, args) == [NoCall EXCEPT !.op = op, !.args = args, !.n = calls[p].n + 1]

\* Client p's call of op stands at the await pc.
At(p, op, pc) == calls[p].op = op /\ calls[p].pc = pc

\* The call returns or throws: response is the response of the result.
Return(call, result) == [call EXCEPT !.pc = "done", !.response = result.response]

\* One step of client p: its call becomes call and the stores become db.
Commit(p, call, db) ==
    /\ calls' = [calls EXCEPT ![p] = call]
    /\ users' = db.users
    /\ sessions' = db.sessions
    /\ codes' = db.codes
    /\ nextSessionId' = db.nextSessionId
    /\ nextCodeId' = db.nextCodeId
    /\ mails' = db.mails
    /\ UNCHANGED <<now, ticks, last>>

\* What findByIdAndUpdate finds: the document, or none (a data-consistency fault).
UpdateOutcomes == {"updated", "missing"}

\* UserModel.create when the collection has no unique index on email.
UserModel_create_noIndex(db, doc) == [created |-> TRUE, users |-> db.users \cup {doc}]

\* UserModel.create: user records are keyed by unique email, a second
\* document with a stored email is refused.
UserModel_create(db, doc) ==
    IF exists(db, doc.email)
    THEN [created |-> FALSE, users |-> db.users]
    ELSE [created |-> TRUE, users |-> db.users \cup {doc}]

(* createAccount *)

createAccount_exists(p, data) ==
    /\ Ready(p)
    /\ LET call == NewCall(p, "createAccount", data)
           existingUser == exists(Db, data.email)
       IN  IF existingUser
           THEN Commit(p, Return(call, Failure("createAccount", CONFLICT,
                                               "Email already in use", Db)), Db)
           ELSE Commit(p, [call EXCEPT !.pc = "UserModel.create"], Db)

createAccount_createUser(p) ==
    /\ At(p, "createAccount", "UserModel.create")
    /\ LET data == calls[p].args
           user == [id |-> Cardinality(users) + 1, email |-> data.email,
                    password |-> hashValue(data.password), verified |-> FALSE]
           made == UserModel_create(Db, user)
       IN  IF ~made.created
           THEN Commit(p, Return(calls[p], Failure("createAccount", "MongoServerError",
                                                   "duplicate key", Db)), Db)
           ELSE Commit(p, [calls[p] EXCEPT !.pc = "VerificationCodeModel.create",
                                           !.user = user],
                       [Db EXCEPT !.users = made.users])

createAccount_createCode(p) ==
    /\ At(p, "createAccount", "VerificationCodeModel.create")
    /\ LET userId == calls[p].user.id
           verificationCode ==
               NewCode(Db, now, userId, EmailVerification, oneYearFromNow(now))
       IN  Commit(p, [calls[p] EXCEPT !.pc = "sendMail", !.code = verificationCode],
                  [Db EXCEPT !.codes = @ \cup {verificationCode}, !.nextCodeId = @ + 1])

createAccount_sendMail(p, mail) ==
    /\ At(p, "createAccount", "sendMail")
    /\ LET user == calls[p].user
           url == [origin |-> APP_ORIGIN, path |-> "/email/verify/",
                   code |-> calls[p].code.id]
           error == sendMail(mail).error
           mailed == [Db EXCEPT !.mails = @ \cup {[to |-> user.email, url |-> url]}]
       IN  IF MailErrorFails(error)
           THEN Commit(p, Return(calls[p], Failure("createAccount", INTERNAL_SERVER_ERROR,
                                                   error.message, mailed)), mailed)
           ELSE Commit(p, [calls[p] EXCEPT !.pc = "SessionModel.create",
                                           !.response = [log |-> error]],
                       mailed)

createAccount_createSession(p) ==
    /\ At(p, "createAccount", "SessionModel.create")
    /\ LET user == calls[p].user
           userId == user.id
           session == NewSession(Db, now, userId, calls[p].args.userAgent)
           refreshToken == signToken([sessionId |-> session.id], refreshTokenSignOptions)
           accessToken == signToken([userId |-> userId, sessionId |-> session.id],
                                    defaultSignOptions)
           after == [Db EXCEPT !.sessions = @ \cup {session}, !.nextSessionId = @ + 1]
       IN  Commit(p, Return([calls[p] EXCEPT !.session = session],
                            Success("createAccount", calls[p].args,
                                    [user |-> omitPassword(user),
                                     accessToken |-> accessToken,
                                     refreshToken |-> refreshToken],
                                    calls[p].response.log, after)),
                  after)

(* loginUser *)

loginUser_findOne(p, email, password, userAgent) ==
    /\ Ready(p)
    /\ LET call == NewCall(p, "loginUser",
                           [email |-> email, password |-> password,
                            userAgent |-> userAgent])
           found == UserByEmail(Db, email)
       IN  IF found = {}
           THEN Commit(p, Return(call, Failure("loginUser", UNAUTHORIZED,
                                               "Invalid email or password", Db)), Db)
           ELSE LET user == CHOOSE u \in found : TRUE
                    isValid == comparePassword(user, password)
                    \* the second appAssert tests user, which is set, not isValid
                    asserted == found # {}
                IN  IF ~asserted
                    THEN Commit(p, Return(call, Failure("loginUser", UNAUTHORIZED,
                                                        "Invalid email or password", Db)),
                                Db)
                    ELSE Commit(p, [call EXCEPT !.pc = "SessionModel.create",
                                                !.user = user], Db)

\* SessionModel.create that keeps one session for each user.
SessionModel_create_single(collection, session) ==
    {s \in collection : s.userId # session.userId} \cup {session}

\* SessionModel.create({userId, userAgent}) of loginUser
SessionModel_create(collection, session) == collection \cup {session}

loginUser_createSession(p) ==
    /\ At(p, "loginUser", "SessionModel.create")
    /\ LET user == calls[p].user
           userId == user.id
           session == NewSession(Db, now, userId, calls[p].args.userAgent)
           sessionInfo == [sessionId |-> session.id]
           refreshToken == signToken(sessionInfo, refreshTokenSignOptions)
           accessToken == signToken([sessionId |-> session.id, userId |-> user.id],
                                    defaultSignOptions)
           after == [Db EXCEPT !.sessions = SessionModel_create(@, session),
                               !.nextSessionId = @ + 1]
       IN  Commit(p, Return([calls[p] EXCEPT !.session = session],
                            Success("loginUser", calls[p].args,
                                    [user |-> omitPassword(user),
                                     accessToken |-> accessToken,
                                     refreshToken |-> refreshToken],
                                    Undefined, after)),
                  after)

(* verifyEmail *)

verifyEmail_findOne(p, code) ==
    /\ Ready(p)
    /\ LET call == NewCall(p, "verifyEmail", [code |-> code])
           found == FindValidCode(Db, code, EmailVerification, now)
       IN  IF found = {}
           THEN Commit(p, Return(call, Failure("verifyEmail", NOT_FOUND,
                                               "Invalid or expired verification code", Db)),
                       Db)
           ELSE Commit(p, [call EXCEPT !.pc = "UserModel.findByIdAndUpdate",
                                       !.code = CHOOSE c \in found : TRUE], Db)

\* An update of the user that sets no field.
SetVerified_nothing(collection, user) == collection

\* findByIdAndUpdate(userId, {verified: true}): the stored document is replaced.
SetVerified(collection, user) == (collection \ {user}) \cup {[user EXCEPT !.verified = TRUE]}

verifyEmail_update(p, outcome) ==
    /\ At(p, "verifyEmail", "UserModel.findByIdAndUpdate")
    /\ LET validCode == calls[p].code
           target == IF outcome = "missing" THEN {} ELSE UserById(Db, validCode.userId)
       IN  IF target = {}
           THEN Commit(p, Return(calls[p], Failure("verifyEmail", INTERNAL_SERVER_ERROR,
                                                   "Failed to verify email", Db)), Db)
           ELSE LET user == CHOOSE u \in target : TRUE
                    updatedUser == [user EXCEPT !.verified = TRUE]
                IN  Commit(p, [calls[p] EXCEPT !.pc = "validCode.deleteOne",
                                               !.user = updatedUser],
                           [Db EXCEPT !.users = SetVerified(@, user)])

verifyEmail_deleteOne(p) ==
    /\ At(p, "verifyEmail", "validCode.deleteOne")
    /\ LET after == [Db EXCEPT !.codes = deleteOne(@, calls[p].code)]
       IN  Commit(p, Return(calls[p],
                            Success("verifyEmail", calls[p].args,
                                    [user |-> omitPassword(calls[p].user)],
                                    Undefined, after)),
                  after)

(* sendPasswordResetEmail *)

sendPasswordResetEmail_findOne(p, email) ==
    /\ Ready(p)
    /\ LET args == [email |-> email]
           call == NewCall(p, "sendPasswordResetEmail", args)
           found == UserByEmail(Db, email)
       IN  IF found = {}
           THEN Commit(p, Return(call, Caught(args, NOT_FOUND, "User not found", Db)), Db)
           ELSE Commit(p, [call EXCEPT !.pc = "VerificationCodeModel.countDocuments",
                                       !.user = CHOOSE u \in found : TRUE], Db)

sendPasswordResetEmail_count(p) ==
    /\ At(p, "sendPasswordResetEmail", "VerificationCodeModel.countDocuments")
    /\ LET user == calls[p].user
           fiveMinAgo == fiveMinutesAgo(now)
           count == countDocuments(Db, user.id, PasswordReset, fiveMinAgo)
       IN  IF ~ThrottleAdmits(count)
           THEN Commit(p, Return(calls[p],
                                 Caught(calls[p].args, TOO_MANY_REQUESTS,
                                        "Too many requests, please try again later", Db)),
                       Db)
           ELSE Commit(p, [calls[p] EXCEPT !.pc = "VerificationCodeModel.create"], Db)

sendPasswordResetEmail_create(p) ==
    /\ At(p, "sendPasswordResetEmail", "VerificationCodeModel.create")
    /\ LET user == calls[p].user
           expiresAt == oneHourFromNow(now)
           verificationCode == NewCode(Db, now, user.id, PasswordReset, expiresAt)
       IN  Commit(p, [calls[p] EXCEPT !.pc = "sendMail", !.code = verificationCode],
                  [Db EXCEPT !.codes = @ \cup {verificationCode}, !.nextCodeId = @ + 1])

sendPasswordResetEmail_sendMail(p, mail) ==
    /\ At(p, "sendPasswordResetEmail", "sendMail")
    /\ LET args == calls[p].args
           verificationCode == calls[p].code
           url == [origin |-> APP_ORIGIN, path |-> "/password/reset",
                   code |-> verificationCode.id, exp |-> verificationCode.expiresAt]
           sent == sendMail(mail)
           after == [Db EXCEPT !.mails = @ \cup {[to |-> args.email, url |-> url]}]
       IN  IF sent.data = Undefined
           THEN Commit(p, Return(calls[p], Caught(args, INTERNAL_SERVER_ERROR,
                                                  sent.error.message, after)), after)
           ELSE Commit(p, Return(calls[p],
                                 Success("sendPasswordResetEmail", args,
                                         [url |-> url, emailId |-> sent.data.id],
                                         Undefined, after)),
                       after)

(* resetPassword *)

resetPassword_findOne(p, verificationCode, password) ==
    /\ Ready(p)
    /\ LET call == NewCall(p, "resetPassword",
                           [verificationCode |-> verificationCode, password |-> password])
           found == FindValidCode(Db, verificationCode, PasswordReset, now)
       IN  IF found = {}
           THEN Commit(p, Return(call, Failure("resetPassword", NOT_FOUND,
                                               "Invalid or expired verification code", Db)),
                       Db)
           ELSE Commit(p, [call EXCEPT !.pc = "UserModel.findByIdAndUpdate",
                                       !.code = CHOOSE c \in found : TRUE], Db)

\* An update that writes the hash to every user.
SetPassword_all(collection, user, hash) == {[u EXCEPT !.password = hash] : u \in collection}

\* findByIdAndUpdate(userId, {password: hash}): the stored document is replaced.
SetPassword(collection, user, hash) ==
    (collection \ {user}) \cup {[user EXCEPT !.password = hash]}

resetPassword_update(p, outcome) ==
    /\ At(p, "resetPassword", "UserModel.findByIdAndUpdate")
    /\ LET validCode == calls[p].code
           target == IF outcome = "missing" THEN {} ELSE UserById(Db, validCode.userId)
       IN  IF target = {}
           THEN Commit(p, Return(calls[p], Failure("resetPassword", INTERNAL_SERVER_ERROR,
                                                   "Failed to reset password", Db)), Db)
           ELSE LET updatedUser == CHOOSE u \in target : TRUE
                IN  Commit(p, [calls[p] EXCEPT !.pc = "validCode.deleteOne",
                                               !.user = updatedUser],
                           [Db EXCEPT !.users =
                               SetPassword(@, updatedUser,
                                           hashValue(calls[p].args.password))])

resetPassword_deleteOne(p) ==
    /\ At(p, "resetPassword", "validCode.deleteOne")
    /\ Commit(p, [calls[p] EXCEPT !.pc = "SessionModel.deleteMany"],
              [Db EXCEPT !.codes = deleteOne(@, calls[p].code)])

resetPassword_deleteMany(p) ==
    /\ At(p, "resetPassword", "SessionModel.deleteMany")
    /\ LET after == [Db EXCEPT !.sessions = deleteMany(@, calls[p].code.userId)]
       IN  Commit(p, Return(calls[p],
                            Success("resetPassword", calls[p].args,
                                    [user |-> omitPassword(calls[p].user)],
                                    Undefined, after)),
                  after)

NextC ==
    \E p \in Procs :
       \/ \E e \in Emails, pw \in Passwords, ua \in UserAgents :
             createAccount_exists(p, [email |-> e, password |-> pw, userAgent |-> ua])
       \/ createAccount_createUser(p)
       \/ createAccount_createCode(p)
       \/ \E m \in MailOutcomes : createAccount_sendMail(p, m)
       \/ createAccount_createSession(p)
       \/ \E e \in Emails, pw \in Passwords, ua \in UserAgents :
             loginUser_findOne(p, e, pw, ua)
       \/ loginUser_createSession(p)
       \/ \E c \in CodeIds : verifyEmail_findOne(p, c)
       \/ \E o \in UpdateOutcomes : verifyEmail_update(p, o)
       \/ verifyEmail_deleteOne(p)
       \/ \E e \in Emails : sendPasswordResetEmail_findOne(p, e)
       \/ sendPasswordResetEmail_count(p)
       \/ sendPasswordResetEmail_create(p)
       \/ \E m \in MailOutcomes : sendPasswordResetEmail_sendMail(p, m)
       \/ \E c \in CodeIds, pw \in Passwords : resetPassword_findOne(p, c, pw)
       \/ \E o \in UpdateOutcomes : resetPassword_update(p, o)
       \/ resetPassword_deleteOne(p)
       \/ resetPassword_deleteMany(p)

SpecC == InitC /\ [][NextC]_vars

----------------------------------------------------------------------------
(* Properties.  A property of a handler is stated of its result in every    *)
(* reachable state of the stores and the clock, for every argument a client *)
(* can send.                                                                *)

RefreshTokenOf(sessionId) == signToken([sessionId |-> sessionId], refreshTokenSignOptions)

CreateAccountParams ==
    [email : Emails, password : Passwords, userAgent : UserAgents]

\* C1: loginUser with an existing email and a password that does not match
\* the stored hash, like loginUser with an email no user has, fails
\* UNAUTHORIZED with the message "Invalid email or password", returns no
\* tokens and creates no session: a loginUser call either presents the
\* password stored for its email or ends that way.
C1_LoginRejectsBadCredentials ==
    [][last'.op = "loginUser"
       => IF last'.kind = OK
          THEN \E u \in users : /\ u.email = last'.args.email
                                /\ u.password = hashValue(last'.args.password)
          ELSE /\ last'.kind = UNAUTHORIZED
               /\ last'.message = "Invalid email or password"
               /\ last'.body = Undefined
               /\ sessions' = sessions]_vars

\* C2: after resetPassword succeeds for user U no session of U remains, and
\* refreshUserAccessToken with the refresh token of any session U had before
\* the reset fails UNAUTHORIZED.
C2_ResetInvalidatesSessions ==
    \A c \in CodeIds, p \in Passwords :
       LET r == resetPasswordResult(Db, now, c, p)
           U == r.response.body.user.id
       IN  r.response.kind = OK
           => /\ \A s \in r.db.sessions : s.userId # U
              /\ \A s \in sessions :
                    s.userId = U
                    => LET again == refreshUserAccessTokenResult(r.db, now, RefreshTokenOf(s.id))
                       IN  /\ again.response.kind = UNAUTHORIZED
                           /\ again.response.body = Undefined

\* resetPassword succeeded for a user who had two sessions.
C2_Witness ==
    /\ last.op = "resetPassword"
    /\ last.kind = OK
    /\ nextSessionId > 2
    /\ \A s \in sessions : s.userId # last.body.user.id

\* C3: right after resetPassword(code, pw2) succeeds for the user with email
\* e, loginUser(e, pw) succeeds when pw = pw2 and fails UNAUTHORIZED when
\* pw # pw2.
C3_LoginAfterReset ==
    [][(/\ last.op = "resetPassword"
        /\ last.kind = OK
        /\ last'.op = "loginUser")
       => /\ last'.kind \in {OK, UNAUTHORIZED}
          /\ last'.kind = OK
               => /\ last'.args.email = last.body.user.email
                  /\ last'.args.password = last.args.password]_vars

\* C4: verifyEmail and resetPassword delete the code they use, no stored
\* code has an id the store will assign again, and verifyEmail and
\* resetPassword fail NOT_FOUND for the id of every code that is gone.
C4_SingleUse ==
    /\ \A c \in codes : c.id < nextCodeId
    /\ \A id \in CodeIds :
          LET v == verifyEmailResult(Db, now, id)
          IN  /\ v.response.kind = OK => \A c \in v.db.codes : c.id # id
              /\ (\A c \in codes : c.id # id)
                    => /\ v.response.kind = NOT_FOUND
                       /\ v.db = Db
    /\ \A id \in CodeIds, p \in Passwords :
          LET r == resetPasswordResult(Db, now, id, p)
          IN  /\ r.response.kind = OK => \A c \in r.db.codes : c.id # id
              /\ (\A c \in codes : c.id # id)
                    => /\ r.response.kind = NOT_FOUND
                       /\ r.db = Db

\* verifyEmail answered NOT_FOUND when every EmailVerification code issued
\* had been used: the user is verified and the code gone.
C4_Witness ==
    /\ last.op = "verifyEmail"
    /\ last.kind = NOT_FOUND
    /\ \E u \in users : u.verified
    /\ \A c \in codes : c.type # EmailVerification

\* C5: createAccount with an email no user has succeeds and stores one user
\* with that email; createAccount with an email a user has fails CONFLICT,
\* changes no store and sends no mail.
C5_CreateAccountOnce ==
    \A data \in CreateAccountParams, m \in MailOutcomes :
       LET r == createAccountResult(Db, now, data, m)
       IN  IF \E u \in users : u.email = data.email
           THEN /\ r.response.kind = CONFLICT
                /\ r.response.message = "Email already in use"
                /\ r.db = Db
           ELSE /\ r.response.kind = OK
                /\ \E u \in r.db.users :
                      /\ u.email = data.email
                      /\ r.db.users = users \cup {u}
                      /\ r.response.body.user = omitPassword(u)
                /\ LET again == createAccountResult(r.db, now, data, m)
                   IN  /\ again.response.kind = CONFLICT
                       /\ again.db = r.db

C5_Witness ==
    /\ last.op = "createAccount"
    /\ last.kind = CONFLICT
    /\ last.message = "Email already in use"
    /\ users # {}

\* C6: refreshUserAccessToken with a validly signed refresh token whose
\* session is absent or has expiresAt <= now fails UNAUTHORIZED, returns no
\* token and modifies no session.
C6_RefreshRejectsDeadSession ==
    \A id \in 1..(nextSessionId - 1) :
       LET r == refreshUserAccessTokenResult(Db, now, RefreshTokenOf(id))
       IN  (\A s \in sessions : s.id = id => s.expiresAt <= now)
           => /\ r.response.kind = UNAUTHORIZED
              /\ r.response.body = Undefined
              /\ r.db = Db

\* The call was refused at the instant its only session expires.
C6_Witness ==
    /\ last.op = "refreshUserAccessToken"
    /\ last.kind = UNAUTHORIZED
    /\ last.message = "Session expired"
    /\ nextSessionId = 2
    /\ \E s \in sessions : s.id = 1 /\ s.expiresAt = now

\* C7: refreshUserAccessToken on a live session with expiresAt - now at most
\* 24 hours sets that session's expiresAt to now + 30 days and returns a new
\* refresh token for the same session id.
C7_RefreshRenewsSession ==
    \A s \in sessions :
       LET r == refreshUserAccessTokenResult(Db, now, RefreshTokenOf(s.id))
       IN  (s.expiresAt > now /\ s.expiresAt - now <= 24 * 60 * 60)
           => /\ r.response.kind = OK
              /\ r.db = [Db EXCEPT !.sessions =
                            (sessions \ {s})
                               \cup {[s EXCEPT !.expiresAt = now + 30 * 24 * 60 * 60]}]
              /\ r.response.body.newRefreshToken = RefreshTokenOf(s.id)

\* The renewed session had exactly 24 hours left: it was created at 0 and
\* the clock stands at 29 days.
C7_Witness ==
    /\ last.op = "refreshUserAccessToken"
    /\ last.kind = OK
    /\ last.body.newRefreshToken # Undefined
    /\ ticks = 1
    /\ now = 29 * 24 * 60 * 60
    /\ \E s \in sessions :
          /\ s.id = last.args.refreshToken.payload.sessionId
          /\ s.expiresAt = now + 30 * 24 * 60 * 60

\* C8: refreshUserAccessToken on a live session with expiresAt - now above
\* 24 hours changes no store, returns no refresh token and returns an access
\* token for the session's userId and sessionId.
C8_RefreshLeavesFreshSession ==
    \A s \in sessions :
       LET r == refreshUserAccessTokenResult(Db, now, RefreshTokenOf(s.id))
       IN  s.expiresAt - now > 24 * 60 * 60
           => /\ r.response.kind = OK
              /\ r.db = Db
              /\ r.response.body.newRefreshToken = Undefined
              /\ r.response.body.accessToken =
                    signToken([userId |-> s.userId, sessionId |-> s.id], defaultSignOptions)

C8_Witness ==
    /\ last.op = "refreshUserAccessToken"
    /\ last.kind = OK
    /\ last.body.newRefreshToken = Undefined
    /\ \E s \in sessions :
          /\ s.id = last.args.refreshToken.payload.sessionId
          /\ s.expiresAt - now > 24 * 60 * 60

\* C9: sendPasswordResetEmail never fails; its result holds url and emailId
\* exactly when the user exists, the throttle admitted the request, a
\* PasswordReset code was created and the mailer returned a delivery id, and
\* is the same empty object in every other case.
C9_ResetRequestUniform ==
    \A e \in Emails, m \in MailOutcomes, f \in Faults :
       LET r == sendPasswordResetEmailResult(Db, now, e, m, f)
           found == {u \in users : u.email = e}
           admitted ==
               \A u \in found :
                  Cardinality({c \in codes : /\ c.userId = u.id
                                             /\ c.type = PasswordReset
                                             /\ c.createdAt > now - 5 * 60}) <= 1
           created == r.db.codes \ codes
       IN  /\ r.response.kind = OK
           /\ r.response.message = ""
           /\ IF /\ f = "none"
                 /\ found # {}
                 /\ admitted
                 /\ created # {}
                 /\ m = "delivered"
              THEN \E c \in created :
                      /\ c.type = PasswordReset
                      /\ r.response.body =
                            [url |-> [origin |-> APP_ORIGIN, path |-> "/password/reset",
                                      code |-> c.id, exp |-> c.expiresAt],
                             emailId |-> "mail-id"]
              ELSE r.response.body = EmptyObject

\* The empty object came back although a code had just been created: the
\* mailer returned no delivery id.
C9_Witness ==
    /\ last.op = "sendPasswordResetEmail"
    /\ last.kind = OK
    /\ last.body = EmptyObject
    /\ \E c \in codes : c.type = PasswordReset /\ c.id = nextCodeId - 1

\* C10: of the PasswordReset codes created for one user (one sendMail call
\* each, the url carrying the code's expiry), at most 2 are created within
\* any 5-minute window.
ResetMails == {m \in mails : m.url.path = "/password/reset"}

C10_AtMostTwoCodesPerWindow ==
    \A m \in ResetMails :
       Cardinality({n \in ResetMails : /\ n.to = m.to
                                       /\ n.url.exp <= m.url.exp
                                       /\ n.url.exp > m.url.exp - 5 * 60}) <= 2

\* C11: when the mailer fails to send the verification email, createAccount
\* with an unused email still succeeds: the error is logged, the user and the
\* EmailVerification code are stored, the session is created, and the user
\* with the access and refresh tokens of that session is returned, the stores
\* and the body being those of a call whose mail was delivered.
C11_MailFailureTolerated ==
    \A data \in CreateAccountParams :
       LET r == createAccountResult(Db, now, data, "failed")
           d == createAccountResult(Db, now, data, "delivered")
       IN  (\A u \in users : u.email # data.email)
           => /\ r.response.kind = OK
              /\ r.response.log = sendMail("failed").error
              /\ \E u \in r.db.users \ users :
                    /\ u.email = data.email
                    /\ r.response.body.user = omitPassword(u)
                    /\ \E c \in r.db.codes \ codes :
                          c.type = EmailVerification /\ c.userId = u.id
                    /\ \E s \in r.db.sessions \ sessions :
                          /\ s.userId = u.id
                          /\ r.response.body.refreshToken = RefreshTokenOf(s.id)
                          /\ r.response.body.accessToken =
                                signToken([userId |-> u.id, sessionId |-> s.id],
                                          defaultSignOptions)
              /\ r.db = d.db
              /\ r.response.body = d.response.body

\* createAccount returned the user and the tokens although the mailer had
\* reported an error; the user, the code and the session are stored.
C11_Witness ==
    /\ last.op = "createAccount"
    /\ last.kind = OK
    /\ last.log # Undefined
    /\ \E u \in users : u.id = last.body.user.id
    /\ \E c \in codes : c.type = EmailVerification /\ c.userId = last.body.user.id
    /\ \E s \in sessions : RefreshTokenOf(s.id) = last.body.refreshToken

C13_ConsumedOnce ==
    \A p \in Procs, q \in Procs :
       (/\ p # q
        /\ calls[p].pc = "done"
        /\ calls[q].pc = "done"
        /\ calls[p].op = calls[q].op
        /\ calls[p].op \in {"resetPassword", "verifyEmail"}
        /\ calls[p].response.kind = OK
        /\ calls[q].response.kind = OK)
       => calls[p].code.id # calls[q].code.id

\* C14: two concurrent sendPasswordResetEmail calls can store one
\* PasswordReset code more than the limit of 2 in a 5-minute window, and no
\* more than that one: the codes stored for one user and created within 5
\* minutes up to any of them number at most 3, and 3 is reached.
C14_OneExtraCode ==
    \A c \in codes :
       c.type = PasswordReset
       => Cardinality({d \in codes : /\ d.userId = c.userId
                                     /\ d.type = PasswordReset
                                     /\ d.createdAt <= c.createdAt
                                     /\ d.createdAt > c.createdAt - 5 * 60})
             <= 2 + (Cardinality(Procs) - 1)

\* Both clients' sendPasswordResetEmail calls were admitted for one user who
\* had one code in the window: the user now has 3 codes created at one instant.
C14_Witness ==
    /\ \A p \in Procs :
          /\ calls[p].op = "sendPasswordResetEmail"
          /\ calls[p].pc = "done"
          /\ calls[p].code # Undefined
          /\ calls[p].code \in codes
    /\ \E u \in users :
          /\ \A p \in Procs : calls[p].user.id = u.id
          /\ Cardinality({c \in codes : /\ c.userId = u.id
                                        /\ c.type = PasswordReset
                                        /\ c.createdAt = now}) = 3

\* C15: once resetPassword has completed for user U, no session of U exists
\* that a loginUser call created after reading U's record before the reset
\* changed the hash: when a completed loginUser holds the record the reset
\* replaced, with the old password that the login presented, its session is
\* not in the store.
C15_NoSessionFromOldPassword ==
    \A p \in Procs, q \in Procs :
       (/\ calls[q].op = "resetPassword"
        /\ calls[q].pc = "done"
        /\ calls[q].response.kind = OK
        /\ calls[p].op = "loginUser"
        /\ calls[p].pc = "done"
        /\ calls[p].response.kind = OK
        /\ calls[p].user = calls[q].user
        /\ comparePassword(calls[p].user, calls[p].args.password)
        /\ ~comparePassword(calls[p].user, calls[q].args.password))
       => calls[p].session \notin sessions

\* C16: for every stored code, verifyEmail with its id fails NOT_FOUND when
\* the code is a PasswordReset code or has expiresAt <= now, and resetPassword
\* with its id fails NOT_FOUND when the code is an EmailVerification code or
\* has expiresAt <= now; the failed call leaves users, codes, sessions and
\* mails as they were.
C16_CodeTypeAndExpiry ==
    \A c \in codes :
       /\ LET v == verifyEmailResult(Db, now, c.id)
          IN  (c.type = PasswordReset \/ c.expiresAt <= now)
              => /\ v.response.kind = NOT_FOUND
                 /\ v.response.message = "Invalid or expired verification code"
                 /\ v.db = Db
       /\ \A p \in Passwords :
             LET r == resetPasswordResult(Db, now, c.id, p)
             IN  (c.type = EmailVerification \/ c.expiresAt <= now)
                 => /\ r.response.kind = NOT_FOUND
                    /\ r.response.message = "Invalid or expired verification code"
                    /\ r.db = Db

\* resetPassword answered NOT_FOUND while every code issued is still stored
\* and the PasswordReset codes expire at this instant.
C16_Witness ==
    /\ last.op = "resetPassword"
    /\ last.kind = NOT_FOUND
    /\ \A id \in CodeIds : \E c \in codes : c.id = id
    /\ \E c \in codes : c.type = PasswordReset
    /\ \A c \in codes : c.type = PasswordReset => c.expiresAt = now

\* C17: verifyEmail marks the user verified before it deletes the code: a
\* step that deletes an EmailVerification code is taken when the code's user
\* is already stored as verified, a verified user stays verified, a completed
\* verifyEmail leaves its user verified, and the step at which the user
\* update finds no user ends the call with INTERNAL_SERVER_ERROR "Failed to
\* verify email" and deletes no code.
C17_VerifiedBeforeDelete ==
    [][/\ \A c \in codes \ codes' :
             c.type = EmailVerification
             => \E u \in users : u.id = c.userId /\ u.verified
       /\ \A u \in users : u.verified => \E v \in users' : v.id = u.id /\ v.verified
       /\ \A p \in Procs :
             /\ (/\ calls[p].op = "verifyEmail"
                 /\ calls[p].pc = "done"
                 /\ calls[p].response.kind = OK)
                => \E u \in users : u.id = calls[p].code.userId /\ u.verified
             /\ (/\ calls[p].op = "verifyEmail"
                 /\ calls[p].pc = "UserModel.findByIdAndUpdate"
                 /\ calls'[p].pc = "done")
                => /\ calls'[p].response.kind = INTERNAL_SERVER_ERROR
                   /\ calls'[p].response.message = "Failed to verify email"
                   /\ codes' = codes
                   /\ users' = users]_vars

\* One verifyEmail call failed at the user update and its code is still
\* stored; another verified its user and deleted its code.
C17_Witness ==
    \E p \in Procs, q \in Procs :
       /\ calls[p].op = "verifyEmail"
       /\ calls[p].pc = "done"
       /\ calls[p].response.kind = INTERNAL_SERVER_ERROR
       /\ calls[p].code \in codes
       /\ calls[q].op = "verifyEmail"
       /\ calls[q].pc = "done"
       /\ calls[q].response.kind = OK
       /\ calls[q].code \notin codes
       /\ \E u \in users : u.id = calls[q].code.userId /\ u.verified

\* C18: the step at which loginUser creates its session succeeds, adds
\* exactly one session, with a new id and the user's id, changes no other
\* session, user or code, and refreshUserAccessToken with the refresh token
\* of every session stored before answers as it did before, with OK.
C18_LoginAddsOneSession ==
    [][\A p \in Procs :
          (/\ calls[p].op = "loginUser"
           /\ calls[p].pc = "SessionModel.create"
           /\ calls'[p].pc = "done")
          => LET s == calls'[p].session
             IN  /\ calls'[p].response.kind = OK
                 /\ \A t \in sessions : t.id # s.id
                 /\ s.userId = calls[p].user.id
                 /\ calls'[p].response.body.refreshToken = RefreshTokenOf(s.id)
                 /\ sessions' = sessions \cup {s}
                 /\ users' = users
                 /\ codes' = codes
                 /\ \A t \in sessions :
                       LET before == refreshUserAccessTokenResult(
                                         Db, now, RefreshTokenOf(t.id))
                           after == refreshUserAccessTokenResult(
                                        Db', now, RefreshTokenOf(t.id))
                       IN  /\ after.response = before.response
                           /\ t.expiresAt > now => after.response.kind = OK]_vars

\* A login completed for a user who now holds two sessions, while another
\* user's session is stored too.
C18_Witness ==
    \E p \in Procs :
       /\ calls[p].op = "loginUser"
       /\ calls[p].pc = "done"
       /\ calls[p].response.kind = OK
       /\ calls[p].session \in sessions
       /\ Cardinality({s \in sessions : s.userId = calls[p].user.id}) >= 2
       /\ \E s \in sessions : s.userId # calls[p].user.id

\* C19: no step lowers the expiresAt of a stored session, and the only step
\* that changes it is a successful refreshUserAccessToken for that session
\* taken when the session is live with at most 24 hours left, which sets it
\* to now + 30 days.
C19_ExpiryMonotone ==
    [][\A s \in sessions, t \in sessions' :
          t.id = s.id
          => /\ t.expiresAt >= s.expiresAt
             /\ t.expiresAt # s.expiresAt
                   => /\ last'.op = "refreshUserAccessToken"
                      /\ last'.kind = OK
                      /\ last'.args.refreshToken = RefreshTokenOf(s.id)
                      /\ s.expiresAt > now
                      /\ s.expiresAt - now <= 24 * 60 * 60
                      /\ t.expiresAt = now + 30 * 24 * 60 * 60]_vars

\* A session's expiry has been moved beyond the thirty days it was created
\* with at instant 0.
C19_Witness ==
    /\ last.op = "refreshUserAccessToken"
    /\ last.kind = OK
    /\ \E s \in sessions :
          /\ s.id = 1
          /\ RefreshTokenOf(s.id) = last.args.refreshToken
          /\ s.expiresAt > 30 * 24 * 60 * 60
          /\ s.expiresAt = now + 30 * 24 * 60 * 60
    /\ \E c \in codes : c.createdAt = 0 /\ c.type = EmailVerification

\* C20: every step of a resetPassword call whose code was issued for user U
\* leaves the record of every other user, the email and verified flag of U,
\* the sessions and the codes of every other user as they were, creates no
\* session and no code, and deletes no code but the one presented.
C20_ResetTouchesOnlyItsUser ==
    [][\A p \in Procs :
          (/\ calls[p].op = "resetPassword"
           /\ calls[p].pc # "done"
           /\ calls'[p] # calls[p])
          => LET U == calls[p].code.userId
             IN  /\ \A u \in users : u.id # U => u \in users'
                 /\ \A v \in users' : v.id # U => v \in users
                 /\ \A u \in users :
                       u.id = U
                       => \E v \in users' :
                             /\ v.id = U
                             /\ v.email = u.email
                             /\ v.verified = u.verified
                 /\ sessions' \subseteq sessions
                 /\ \A s \in sessions : s.userId # U => s \in sessions'
                 /\ codes' \subseteq codes
                 /\ codes \ codes' \subseteq {calls[p].code}]_vars

\* resetPassword completed for one user, whose sessions are gone and whose
\* hash is the new one, while the other user keeps the first password, a
\* session and a PasswordReset code.
C20_Witness ==
    \E p \in Procs :
       /\ calls[p].op = "resetPassword"
       /\ calls[p].pc = "done"
       /\ calls[p].response.kind = OK
       /\ calls[p].args.password = "pw2"
       /\ \A s \in sessions : s.userId # calls[p].code.userId
       /\ \E u \in users :
             /\ u.id = calls[p].code.userId
             /\ u.password = hashValue("pw2")
       /\ \E u \in users :
             /\ u.id # calls[p].code.userId
             /\ u.password = hashValue("pw1")
             /\ \E s \in sessions : s.userId = u.id
             /\ \E c \in codes : c.userId = u.id /\ c.type = PasswordReset

====
